---- MODULE Spec2Model ----
(***************************************************************************)
(* csalt: the authenticated directory-resolution flow of cmd/csalt and     *)
(* package userapi, modelled as concurrently running invocations that      *)
(* share the identity file, the token file and their flock(2) lock files.  *)
(***************************************************************************)
EXTENDS Integers, Sequences, FiniteSets, TLC

\* ------------------------------------------------------------- bounds
\* Number of invocations (OS processes) that may run, concurrently or one
\* after the other.
NumProcs == 3

Procs == 1..NumProcs

\* The largest HTTP status code a response is classified for (from 100).
MaxStatusCode == 599
\* The most devices a query resolves to, and the most salt commands given.
MaxDevices == 3
MaxCommands == 2

\* ---------------------------------------------------- program constants
\* A limit that lets one more password through.
maxPasswordAttemptsOffByOne == 3 + 1

\* main.go's maxPasswordAttempts.
maxPasswordAttempts == 3

\* lockRetryDelay and lockTimeout in milliseconds.
lockRetryDelay == 678
lockTimeout == 5000

\* The two lock-guarded files.
Files == {"config", "token"}

VARIABLES
    concurrent,   \* whether invocations overlap in time (fixed by Init)
    configFile,   \* cacophony-user.yaml: [exists, data]
    tokenFile,    \* .cacophony-token:    [exists, data]
    held,         \* held[f]: the flock handles holding <f>.lock
    pc,           \* pc[p]: where invocation p is in runMain
    conf,         \* conf[p]: the *Config built by NewConfig
    tokenConfig,  \* tokenConfig[p]: the TokenConfig read by readTokenConfig
    api,          \* api[p]: the CacophonyUserAPI session
    attempts,     \* attempts[p]: requestAuthentication's counter
    waited,       \* waited[p]: ms spent in the running Try(R)LockContext
    retry,        \* retry[p]: TRUE once the first TranslateNames failed auth
    pending,      \* pending[p]: bytes the running Save/saveTokenConfig writes
    err,          \* err[p]: the error runMain returned (nil while running)
    log,          \* log[p]: history of prompts, calls and writes
    persisted,    \* persisted[p]: the token record p last wrote, if any
    snap,         \* snap[p]: what was true when invocation p started
    loadErr,      \* loadErr[p]: NewConfig's err, then the error it returned
    pure          \* a call of a pure function: its arguments and result

vars == <<concurrent, configFile, tokenFile, held, pc, conf, tokenConfig, api, attempts,
          waited, retry, pending, err, log, persisted, snap, loadErr, pure>>

\* --------------------------------------------------------- input domains
\* Invocations that run one after the other meet every user and server
\* behaviour below; invocations that overlap meet the well-behaved ones.
\* What the user can type at the "Enter API ServerURL" / "Enter Username"
\* prompts ("" is an empty line: Scanln leaves the field unchanged).
ServerInputs == IF concurrent THEN {"https://api"} ELSE {"", "https://api"}
UserInputs == IF concurrent THEN {"alice"} ELSE {"", "alice", "bob"}
\* The password gopass.GetPasswd can return.
PasswordInputs == IF concurrent THEN {"secret"} ELSE {"", "secret"}
\* HTTP status codes the server can answer with.
HTTPCodes == IF concurrent THEN {200} ELSE {200, 401, 403, 500}
\* Whether a request can fail in transport, or a 2xx body fail to decode.
Unreliable == ~concurrent
\* Whether afero.ReadFile of an existing file can fail.
ReadFailures == IF concurrent THEN {FALSE} ELSE {FALSE, TRUE}
\* Tokens the server can put in a successful response body.
AuthTokens == IF concurrent THEN {"T1"} ELSE {"", "T1"}
ScopedTokens == IF concurrent THEN {"S1"} ELSE {"S1", "S2"}

\* ------------------------------------------------------------ errors
\* A Go error value.  typ "Error" is userapi's *Error (fields message,
\* authentication, permanent); typ "error" is any other error.
nil == [typ |-> "nil", message |-> "", code |-> 0,
        authentication |-> FALSE, permanent |-> FALSE]

PlainError(msg) == [typ |-> "error", message |-> msg, code |-> 0,
                    authentication |-> FALSE, permanent |-> FALSE]

ApiError(msg, c, auth, perm) == [typ |-> "Error", message |-> msg, code |-> c,
                                 authentication |-> auth, permanent |-> perm]

\* userapi.IsAuthenticationError: true for an *Error whose authentication
\* flag is set.
IsAuthenticationError(e) == e.typ = "Error" /\ e.authentication

\* ------------------------------------------------------------ yaml
\* A yaml document is a sequence of <<key, value>> lines.
EmptyDoc == <<>>

NoFile == [exists |-> FALSE, data |-> EmptyDoc]

YamlHas(doc, key) == \E i \in 1..Len(doc) : doc[i][1] = key

\* The value of <key> in <doc>, or <old> (the field keeps its value) when
\* the document has no such key.
YamlGet(doc, key, old) ==
    IF YamlHas(doc, key)
    THEN doc[CHOOSE i \in 1..Len(doc) : doc[i][1] = key][2]
    ELSE old

\* yaml.Marshal(&c) of a Config: the two exported, tagged fields.
MarshalConfig(c) == << <<"server-url", c.ServerURL>>, <<"user-name", c.UserName>> >>

\* yaml.Unmarshal(bytes, c) into a Config.
UnmarshalConfig(doc, c) ==
    [c EXCEPT !.ServerURL = YamlGet(doc, "server-url", c.ServerURL),
              !.UserName = YamlGet(doc, "user-name", c.UserName)]

\* yaml.Marshal(&tokenConfig).
MarshalTokenConfig(tc) == << <<"user-name", tc.UserName>>, <<"token", tc.Token>> >>

\* yaml.Unmarshal(bytes, config) into a TokenConfig.
UnmarshalTokenConfig(doc, tc) ==
    [tc EXCEPT !.UserName = YamlGet(doc, "user-name", tc.UserName),
               !.Token = YamlGet(doc, "token", tc.Token)]

EmptyConfig == [ServerURL |-> "", UserName |-> "", token |-> ""]
EmptyTokenConfig == [UserName |-> "", Token |-> ""]
EmptyApi == [username |-> "", serverURL |-> "", token |-> "", authenticated |-> FALSE]
EmptySnap == [started |-> FALSE, after |-> {}, token |-> NoFile]

\* No pure function is being called (the state of pure while runMain runs).
NoCall == [fn |-> "", code |-> 0, body |-> FALSE, url |-> "", devices |-> <<>>,
           commands |-> <<>>, done |-> FALSE, err |-> nil, argv |-> <<>>,
           session |-> EmptyApi, password |-> "",
           resp |-> [transport |-> FALSE, code |-> 0, body |-> FALSE, decodes |-> FALSE,
                     payload |-> ""],
           sent |-> FALSE, after |-> EmptyApi]

\* ------------------------------------------------------------ locks
\* A flock handle: one open file description of <f>.lock.  n tells the
\* handles of one process apart.
Handle(p, mode, n) == [proc |-> p, mode |-> mode, n |-> n]

\* An exclusive request granted under the rule for shared ones.
CanLockExAsShared(f) == \A h \in held[f] : h.mode # "ex"

\* flock(LOCK_EX|LOCK_NB) succeeds when no open file description holds a
\* lock on the file.
CanLockEx(f) == held[f] = {}

\* A shared lock granted whoever holds the file.
CanLockShIgnoresWriter(f) == TRUE

\* flock(LOCK_SH|LOCK_NB) succeeds when no open file description holds an
\* exclusive lock on the file.
CanLockSh(f) == \A h \in held[f] : h.mode # "ex"

\* A retry loop without a deadline.
LockNeverTimesOut(w) == FALSE

\* tryCtx: after a failed attempt the next one comes lockRetryDelay later,
\* unless the context's deadline (lockTimeout) comes first.
LockTimedOut(w) == w + lockRetryDelay >= lockTimeout

\* The error Try(R)LockContext returns when the context's deadline passes.
LockError == PlainError("context deadline exceeded")

\* A deferred Unlock that releases nothing.
UnlockLeaks(hs, p) == hs

\* LockSafeConfig.Unlock as deferred by Read: the shared lock of p's handle
\* is released.
Unlock(hs, p) == hs \ {Handle(p, "sh", 0)}

\* Which lock file a pc in a lock loop is about.
LockFileOf(l) == IF l \in {"readTokenConfig", "saveTokenConfig"} THEN "token" ELSE "config"

ExHandlesOf(p, f) == {h \in held[f] : h.proc = p /\ h.mode = "ex"}

\* ------------------------------------------------------------ Init
InitFiles ==
    /\ configFile = NoFile
    /\ tokenFile = NoFile
    /\ held = [f \in Files |-> {}]
    /\ pc = [p \in Procs |-> "idle"]
    /\ conf = [p \in Procs |-> EmptyConfig]
    /\ tokenConfig = [p \in Procs |-> EmptyTokenConfig]
    /\ api = [p \in Procs |-> EmptyApi]
    /\ attempts = [p \in Procs |-> 0]
    /\ waited = [p \in Procs |-> 0]
    /\ retry = [p \in Procs |-> FALSE]
    /\ pending = [p \in Procs |-> EmptyDoc]
    /\ err = [p \in Procs |-> nil]
    /\ log = [p \in Procs |-> <<>>]
    /\ persisted = [p \in Procs |-> EmptyDoc]
    /\ snap = [p \in Procs |-> EmptySnap]
    /\ loadErr = [p \in Procs |-> nil]

\* A fresh home directory; invocations run one after the other.
Init == concurrent = FALSE /\ pure = NoCall /\ InitFiles

\* A fresh home directory; invocations may overlap.
InitConc == concurrent = TRUE /\ pure = NoCall /\ InitFiles

\* ------------------------------------------------------------ runMain
\* runMain up to userapi.NewConfig(): the arguments name devices/groups and
\* commands, so the resolve-then-invoke path is taken.  NewConfig starts
\* with readTokenConfig.
Start(p) ==
    /\ pc[p] = "idle"
    /\ \A q \in Procs : q < p => pc[q] # "idle"
    /\ ~concurrent => \A q \in Procs : pc[q] \in {"idle", "done"}
    /\ pc' = [pc EXCEPT ![p] = "readTokenConfig"]
    /\ waited' = [waited EXCEPT ![p] = 0]
    /\ snap' = [snap EXCEPT ![p] = [started |-> TRUE,
                                    after |-> {q \in Procs : pc[q] = "done"},
                                    token |-> tokenFile]]
    /\ UNCHANGED <<concurrent, pure, loadErr, configFile, tokenFile, held, conf, tokenConfig, api,
                   attempts, retry, pending, err, log, persisted>>

\* The comparison and validation that end NewConfig, once conf.read()
\* returned readErr having left the Config as c.
NewConfigTail(c, tc, readErr) ==
    LET c2 == IF c.UserName = tc.UserName THEN [c EXCEPT !.token = tc.Token] ELSE c
        verr == IF readErr # nil THEN readErr
                ELSE IF c2.ServerURL = "" THEN PlainError("server-url missing")
                ELSE IF c2.UserName = "" THEN PlainError("user-name is missing")
                ELSE nil
    IN  [conf |-> c2, err |-> verr]

\* readLock (TryRLockContext) as called by LockSafeConfig.Read, for
\* readTokenConfig and for Config.read: one attempt of the retry loop.
readLock(p) ==
    /\ pc[p] \in {"readTokenConfig", "configRead"}
    /\ LET f == LockFileOf(pc[p]) IN
       IF CanLockSh(f)
       THEN /\ held' = [held EXCEPT ![f] = @ \cup {Handle(p, "sh", 0)}]
            /\ pc' = [pc EXCEPT ![p] = IF f = "token" THEN "readTokenFile"
                                       ELSE "configReadFile"]
            /\ waited' = [waited EXCEPT ![p] = 0]
            /\ UNCHANGED <<conf, tokenConfig, loadErr>>
       ELSE IF ~LockTimedOut(waited[p])
       THEN /\ waited' = [waited EXCEPT ![p] = @ + lockRetryDelay]
            /\ UNCHANGED <<held, pc, conf, tokenConfig, loadErr>>
       ELSE \* Read returns (nil, err)
            /\ waited' = [waited EXCEPT ![p] = 0]
            /\ loadErr' = [loadErr EXCEPT ![p] = LockError]
            /\ UNCHANGED held
            /\ IF f = "token"
               THEN \* readTokenConfig returns the empty config and the error,
                    \* which NewConfig drops
                    /\ tokenConfig' = [tokenConfig EXCEPT ![p] = EmptyTokenConfig]
                    /\ pc' = [pc EXCEPT ![p] = "configExists"]
                    /\ UNCHANGED conf
               ELSE \* conf.read() fails; NewConfig returns conf and the error
                    /\ conf' = [conf EXCEPT ![p] =
                                  NewConfigTail(conf[p], tokenConfig[p], LockError).conf]
                    /\ pc' = [pc EXCEPT ![p] = "getMissingConfig"]
                    /\ UNCHANGED tokenConfig
    /\ UNCHANGED <<concurrent, pure, configFile, tokenFile, api, attempts, retry, pending,
                   err, log, persisted, snap>>

\* LockSafeConfig.Read of the token file under the shared lock, the deferred
\* Unlock, and readTokenConfig's Unmarshal.
ReadTokenFile(p) ==
    /\ pc[p] = "readTokenFile"
    /\ \E fails \in ReadFailures :
          IF tokenFile.exists /\ fails
          THEN \* Read returns (nil, err); readTokenConfig the empty config
               /\ tokenConfig' = [tokenConfig EXCEPT ![p] = EmptyTokenConfig]
               /\ loadErr' = [loadErr EXCEPT ![p] = PlainError("read")]
          ELSE /\ tokenConfig' = [tokenConfig EXCEPT ![p] =
                      IF tokenFile.exists
                      THEN UnmarshalTokenConfig(tokenFile.data, EmptyTokenConfig)
                      ELSE EmptyTokenConfig]
               /\ loadErr' = [loadErr EXCEPT ![p] = nil]
    /\ held' = [held EXCEPT !["token"] = Unlock(@, p)]
    /\ pc' = [pc EXCEPT ![p] = "configExists"]
    /\ UNCHANGED <<concurrent, pure, configFile, tokenFile, conf, api, attempts, waited, retry,
                   pending, err, log, persisted, snap>>

\* The error NewConfig returns when the identity file does not exist.
ConfigMissing == PlainError("user config is missing")

\* NewConfig's afero.Exists on the identity file (and the same test at the
\* head of Config.read).
ConfigExists(p) ==
    /\ pc[p] = "configExists"
    /\ pc' = [pc EXCEPT ![p] = IF configFile.exists THEN "configRead"
                               ELSE "getMissingConfig"]
    /\ loadErr' = [loadErr EXCEPT ![p] = IF configFile.exists THEN @ ELSE ConfigMissing]
    /\ waited' = [waited EXCEPT ![p] = 0]
    /\ UNCHANGED <<concurrent, pure, configFile, tokenFile, held, conf, tokenConfig, api,
                   attempts, retry, pending, err, log, persisted, snap>>

\* LockSafeConfig.Read of the identity file under the shared lock, the
\* deferred Unlock, Config.read's Unmarshal, and the rest of NewConfig.
ReadConfigFile(p) ==
    /\ pc[p] = "configReadFile"
    /\ \E fails \in ReadFailures :
          LET c == IF fails THEN conf[p] ELSE UnmarshalConfig(configFile.data, conf[p])
              r == NewConfigTail(c, tokenConfig[p],
                                 IF fails THEN PlainError("read") ELSE nil)
          IN  /\ conf' = [conf EXCEPT ![p] = r.conf]
              /\ loadErr' = [loadErr EXCEPT ![p] = r.err]
              /\ pc' = [pc EXCEPT ![p] = IF r.err # nil THEN "getMissingConfig" ELSE "New"]
    /\ held' = [held EXCEPT !["config"] = Unlock(@, p)]
    /\ UNCHANGED <<concurrent, pure, configFile, tokenFile, tokenConfig, api, attempts, waited,
                   retry, pending, err, log, persisted, snap>>

\* getMissingConfig: the user is asked for each empty field; then runMain
\* calls config.Save(), which starts with ExLock.
getMissingConfig(p) ==
    /\ pc[p] = "getMissingConfig"
    /\ \E url \in ServerInputs, name \in UserInputs :
          LET c == [conf[p] EXCEPT
                      !.ServerURL = IF @ = "" THEN url ELSE @,
                      !.UserName = IF @ = "" THEN name ELSE @]
          IN  /\ conf' = [conf EXCEPT ![p] = c]
              /\ pending' = [pending EXCEPT ![p] = MarshalConfig(c)]
    /\ pc' = [pc EXCEPT ![p] = "Save"]
    /\ waited' = [waited EXCEPT ![p] = 0]
    /\ loadErr' = [loadErr EXCEPT ![p] = nil]
    /\ UNCHANGED <<concurrent, pure, configFile, tokenFile, held, tokenConfig, api, attempts,
                   retry, err, log, persisted, snap>>

\* The handle number of the lock that Save / saveTokenConfig opens.
SaveHandle(p) == Handle(p, "ex", IF retry[p] THEN 2 ELSE 1)

\* LockSafeConfig.ExLock (TryLockContext) as called by Config.Save and by
\* saveTokenConfig: one attempt of the retry loop.
ExLock(p) ==
    /\ pc[p] \in {"Save", "saveTokenConfig"}
    /\ LET f == LockFileOf(pc[p]) IN
       IF CanLockEx(f)
       THEN /\ held' = [held EXCEPT ![f] = @ \cup {SaveHandle(p)}]
            /\ pc' = [pc EXCEPT ![p] = IF f = "token" THEN "tokenWrite" ELSE "SaveWrite"]
            /\ waited' = [waited EXCEPT ![p] = 0]
            /\ UNCHANGED log
       ELSE IF ~LockTimedOut(waited[p])
       THEN /\ waited' = [waited EXCEPT ![p] = @ + lockRetryDelay]
            /\ UNCHANGED <<held, pc, log>>
       ELSE \* ExLock returns (false, err).  runMain prints Save's error and
            \* goes on; SaveTemporaryToken drops saveTokenConfig's and
            \* returns nil, so authenticateUser returns nil to runMain.
            /\ waited' = [waited EXCEPT ![p] = 0]
            /\ pc' = [pc EXCEPT ![p] = IF f = "token" THEN "TranslateNames" ELSE "New"]
            /\ log' = [log EXCEPT ![p] = IF f = "token" THEN Append(@, "save_lock_timeout") ELSE @]
            /\ UNCHANGED held
    /\ UNCHANGED <<concurrent, pure, loadErr, configFile, tokenFile, conf, tokenConfig, api, attempts,
                   retry, pending, err, persisted, snap>>

\* LockSafeConfig.Write up to afero.WriteFile's open: fileLock.Locked() holds
\* and the file is created or truncated.
WriteOpen(p) ==
    /\ pc[p] \in {"SaveWrite", "tokenWrite"}
    /\ IF pc[p] = "tokenWrite"
       THEN /\ SaveHandle(p) \in held["token"]
            /\ tokenFile' = [exists |-> TRUE, data |-> EmptyDoc]
            /\ pc' = [pc EXCEPT ![p] = "tokenWriteData"]
            /\ UNCHANGED configFile
       ELSE /\ SaveHandle(p) \in held["config"]
            /\ configFile' = [exists |-> TRUE, data |-> EmptyDoc]
            /\ pc' = [pc EXCEPT ![p] = "SaveWriteData"]
            /\ UNCHANGED tokenFile
    /\ UNCHANGED <<concurrent, pure, loadErr, held, conf, tokenConfig, api, attempts, waited, retry,
                   pending, err, log, persisted, snap>>

\* afero.WriteFile's write and close; Save / saveTokenConfig then return nil
\* without unlocking: the lock stays with the open file description.
WriteData(p) ==
    /\ pc[p] \in {"SaveWriteData", "tokenWriteData"}
    /\ IF pc[p] = "tokenWriteData"
       THEN /\ tokenFile' = [exists |-> TRUE, data |-> pending[p]]
            /\ persisted' = [persisted EXCEPT ![p] = pending[p]]
            /\ log' = [log EXCEPT ![p] = Append(@, "write")]
            /\ pc' = [pc EXCEPT ![p] = "TranslateNames"]
            /\ UNCHANGED configFile
       ELSE /\ configFile' = [exists |-> TRUE, data |-> pending[p]]
            /\ pc' = [pc EXCEPT ![p] = "New"]
            /\ UNCHANGED <<tokenFile, persisted, log>>
    /\ UNCHANGED <<concurrent, pure, loadErr, held, conf, tokenConfig, api, attempts, waited, retry,
                   pending, err, snap>>

\* The garbage collector finalizes the os.File of a lock object that its
\* function left behind locked: the descriptor is closed and the lock goes.
Finalizer(p) ==
    /\ pc[p] \notin {"SaveWrite", "SaveWriteData", "tokenWrite", "tokenWriteData", "done"}
    /\ \E f \in Files :
          /\ ExHandlesOf(p, f) # {}
          /\ held' = [held EXCEPT ![f] = @ \ ExHandlesOf(p, f)]
    /\ UNCHANGED <<concurrent, pure, loadErr, configFile, tokenFile, pc, conf, tokenConfig, api, attempts,
                   waited, retry, pending, err, log, persisted, snap>>

\* A session that never reports a token.
HasTokenNever(a) == FALSE

\* userapi.New(config) and runMain's test of api.HasToken().
HasToken(a) == a.token # ""

New(p) ==
    /\ pc[p] = "New"
    /\ LET a == [username |-> conf[p].UserName, serverURL |-> conf[p].ServerURL,
                 token |-> conf[p].token, authenticated |-> FALSE]
       IN  /\ api' = [api EXCEPT ![p] = a]
           /\ pc' = [pc EXCEPT ![p] = IF HasToken(a) THEN "TranslateNames"
                                      ELSE "authenticateUser"]
    /\ UNCHANGED <<concurrent, pure, loadErr, configFile, tokenFile, held, conf, tokenConfig, attempts,
                   waited, retry, pending, err, log, persisted, snap>>

\* ------------------------------------------------------------ network
\* What a request to the server at <url> can lead to: a transport error, or
\* a response with a status code whose body can be read or not and, on 2xx,
\* decodes to one of <payloads> or does not decode.  No request to the empty
\* URL gets through.
Responses(url, payloads) ==
    IF url = ""
    THEN {[transport |-> TRUE, code |-> 0, body |-> FALSE, decodes |-> FALSE,
           payload |-> ""]}
    ELSE {[transport |-> TRUE, code |-> 0, body |-> FALSE, decodes |-> FALSE,
           payload |-> ""] : x \in {u \in {url} : Unreliable}}
         \cup {[transport |-> FALSE, code |-> c, body |-> b, decodes |-> FALSE,
                payload |-> ""] :
              c \in {h \in HTTPCodes : Unreliable \/ h # 200}, b \in BOOLEAN}
         \cup {[transport |-> FALSE, code |-> 200, body |-> TRUE, decodes |-> TRUE,
                payload |-> t] : t \in payloads}

isHTTPSuccess(code) == code >= 200 /\ code < 300

isAutherizatioError(code) == code = 401

\* A client-error range that takes in 500.
isHTTPClientErrorInclusive(code) == code >= 400 /\ code <= 500

isHTTPClientError(code) == code >= 400 /\ code < 500

\* error.go's temporaryError: an *Error that is not permanent.
temporaryError(msg, code) == ApiError(msg, code, FALSE, FALSE)

\* handleHTTPResponse of a response with status <code> whose body can be
\* read (<body>) or not.
handleHTTPResponse(code, body) ==
    IF isAutherizatioError(code)
    THEN ApiError("API authentication failed", code, TRUE, FALSE)
    ELSE IF ~isHTTPSuccess(code)
    THEN IF ~body
         THEN temporaryError("request failed and body read failed", code)
         ELSE ApiError("HTTP request failed", code, FALSE, isHTTPClientError(code))
    ELSE nil

\* The part every call shares: httpClient.Do, handleHTTPResponse, Decode.
CallError(resp) ==
    IF resp.transport THEN PlainError("transport")
    ELSE IF handleHTTPResponse(resp.code, resp.body) # nil
    THEN handleHTTPResponse(resp.code, resp.body)
    ELSE IF ~resp.decodes THEN PlainError("decode")
    ELSE nil

\* An Authenticate that sends whatever password it is given.
AuthenticateSendsEmpty(a, password, resp) ==
    IF CallError(resp) # nil
    THEN [api |-> a, err |-> CallError(resp), sent |-> TRUE]
    ELSE [api |-> [a EXCEPT !.token = resp.payload, !.authenticated = TRUE],
          err |-> nil, sent |-> TRUE]

\* CacophonyUserAPI.Authenticate: the session afterwards, the error, and
\* whether a request was sent.
Authenticate(a, password, resp) ==
    IF password = ""
    THEN [api |-> a, err |-> PlainError("empty password"), sent |-> FALSE]
    ELSE IF CallError(resp) # nil
    THEN [api |-> a, err |-> CallError(resp), sent |-> TRUE]
    ELSE [api |-> [a EXCEPT !.token = resp.payload, !.authenticated = TRUE],
          err |-> nil, sent |-> TRUE]

\* An exchange whose result is dropped: the session token is persisted.
SaveTemporaryTokenKeepsToken(a, resp) ==
    IF a.token = ""
    THEN [api |-> a, err |-> PlainError("No Token found"), sent |-> FALSE,
          record |-> EmptyTokenConfig]
    ELSE IF CallError(resp) # nil
    THEN [api |-> a, err |-> CallError(resp), sent |-> TRUE, record |-> EmptyTokenConfig]
    ELSE [api |-> a, err |-> nil, sent |-> TRUE,
          record |-> [UserName |-> a.username, Token |-> a.token]]

\* An exchange after which the session goes on with the scoped token.
SaveTemporaryTokenSetsToken(a, resp) ==
    IF a.token = ""
    THEN [api |-> a, err |-> PlainError("No Token found"), sent |-> FALSE,
          record |-> EmptyTokenConfig]
    ELSE IF CallError(resp) # nil
    THEN [api |-> a, err |-> CallError(resp), sent |-> TRUE, record |-> EmptyTokenConfig]
    ELSE [api |-> [a EXCEPT !.token = "JWT " \o resp.payload], err |-> nil, sent |-> TRUE,
          record |-> [UserName |-> a.username, Token |-> "JWT " \o resp.payload]]

\* CacophonyUserAPI.SaveTemporaryToken up to the call of saveTokenConfig:
\* the session afterwards, the error, whether a request was sent, and the
\* token and userName handed to saveTokenConfig.
SaveTemporaryToken(a, resp) ==
    IF a.token = ""
    THEN [api |-> a, err |-> PlainError("No Token found"), sent |-> FALSE,
          record |-> EmptyTokenConfig]
    ELSE IF CallError(resp) # nil
    THEN [api |-> a, err |-> CallError(resp), sent |-> TRUE, record |-> EmptyTokenConfig]
    ELSE [api |-> a, err |-> nil, sent |-> TRUE,
          record |-> [UserName |-> a.username, Token |-> "JWT " \o resp.payload]]

\* A TranslateNames that marks the session unauthenticated when the server
\* refuses its token.
TranslateNamesResets(a, resp) ==
    IF a.token = ""
    THEN [api |-> a, err |-> ApiError("No Token Supplied", 0, TRUE, FALSE),
          sent |-> FALSE, devices |-> ""]
    ELSE IF CallError(resp) # nil
    THEN [api |-> [a EXCEPT !.authenticated = ~IsAuthenticationError(CallError(resp)) /\ @],
          err |-> CallError(resp), sent |-> TRUE, devices |-> ""]
    ELSE [api |-> [a EXCEPT !.authenticated = TRUE], err |-> nil, sent |-> TRUE,
          devices |-> resp.payload]

\* A TranslateNames that sends its request with whatever token it has.
TranslateNamesSendsEmpty(a, resp) ==
    IF CallError(resp) # nil
    THEN [api |-> a, err |-> CallError(resp), sent |-> TRUE, devices |-> ""]
    ELSE [api |-> [a EXCEPT !.authenticated = TRUE], err |-> nil, sent |-> TRUE,
          devices |-> resp.payload]

\* CacophonyUserAPI.TranslateNames.
TranslateNames(a, resp) ==
    IF a.token = ""
    THEN [api |-> a, err |-> ApiError("No Token Supplied", 0, TRUE, FALSE),
          sent |-> FALSE, devices |-> ""]
    ELSE IF CallError(resp) # nil
    THEN [api |-> a, err |-> CallError(resp), sent |-> TRUE, devices |-> ""]
    ELSE [api |-> [a EXCEPT !.authenticated = TRUE], err |-> nil, sent |-> TRUE,
          devices |-> resp.payload]

\* Device lists the query can answer with: none, or some.
DevicePayloads == {"", "devices"}

\* How a call's error shows in the log.
Outcome(call, e) ==
    IF e = nil THEN call \o "_ok"
    ELSE IF IsAuthenticationError(e) THEN call \o "_autherr"
    ELSE call \o "_err"

\* ------------------------------------------------------------ controller
\* A password asked for in every round, authenticated or not.
NeedsPasswordAlways(a) == TRUE

\* A password asked for only when the session has no token at all.
NeedsPasswordUnlessToken(a) == ~a.authenticated /\ a.token = ""

\* authenticateUser's "if !api.Authenticated()".
NeedsPassword(a) == ~a.authenticated

\* authenticateUser up to its call of SaveTemporaryToken.
authenticateUser(p) ==
    /\ pc[p] = "authenticateUser"
    /\ pc' = [pc EXCEPT ![p] = IF NeedsPassword(api[p]) THEN "requestAuthentication"
                               ELSE "SaveTemporaryToken"]
    /\ attempts' = [attempts EXCEPT ![p] = 0]
    /\ UNCHANGED <<concurrent, pure, loadErr, configFile, tokenFile, held, conf, tokenConfig, api,
                   waited, retry, pending, err, log, persisted, snap>>

\* A loop that counts every error as a failed attempt.
ReturnsErrorNever(e) == FALSE

\* requestAuthentication's "if !userapi.IsAuthenticationError(err)": the
\* error is returned instead of counted.
ReturnsError(e) == e # nil /\ ~IsAuthenticationError(e)

\* One turn of requestAuthentication's loop: GetPasswd, then Authenticate.
requestAuthentication(p) ==
    /\ pc[p] = "requestAuthentication"
    /\ \/ \* gopass.GetPasswd fails
          /\ err' = [err EXCEPT ![p] = PlainError("GetPasswd")]
          /\ log' = [log EXCEPT ![p] = @ \o <<"prompt", "prompt_err">>]
          /\ pc' = [pc EXCEPT ![p] = "exit"]
          /\ UNCHANGED <<api, attempts>>
       \/ \E password \in PasswordInputs, resp \in Responses(api[p].serverURL, AuthTokens) :
            LET r == Authenticate(api[p], password, resp) IN
            /\ api' = [api EXCEPT ![p] = r.api]
            /\ log' = [log EXCEPT ![p] = @ \o <<"prompt",
                          IF r.sent THEN Outcome("authenticate", r.err)
                          ELSE "authenticate_empty">>]
            /\ IF r.err = nil
               THEN /\ pc' = [pc EXCEPT ![p] = "SaveTemporaryToken"]
                    /\ UNCHANGED <<err, attempts>>
               ELSE IF ReturnsError(r.err)
               THEN /\ pc' = [pc EXCEPT ![p] = "exit"]
                    /\ err' = [err EXCEPT ![p] = r.err]
                    /\ UNCHANGED attempts
               ELSE IF attempts[p] + 1 = maxPasswordAttempts
               THEN /\ pc' = [pc EXCEPT ![p] = "exit"]
                    /\ err' = [err EXCEPT ![p] = PlainError("Max Password Attempts")]
                    /\ attempts' = [attempts EXCEPT ![p] = @ + 1]
               ELSE /\ attempts' = [attempts EXCEPT ![p] = @ + 1]
                    /\ UNCHANGED <<pc, err>>
    /\ UNCHANGED <<concurrent, pure, loadErr, configFile, tokenFile, held, conf, tokenConfig, waited,
                   retry, pending, persisted, snap>>

\* SaveTemporaryToken's request, and its call of saveTokenConfig, which
\* starts with ExLock.  On an error authenticateUser and runMain return it.
requestScopedToken(p) ==
    /\ pc[p] = "SaveTemporaryToken"
    /\ \E resp \in Responses(api[p].serverURL, ScopedTokens) :
          LET r == SaveTemporaryToken(api[p], resp) IN
          /\ api' = [api EXCEPT ![p] = r.api]
          /\ log' = [log EXCEPT ![p] = Append(@,
                        IF r.sent THEN Outcome("token", r.err) ELSE "token_notoken")]
          /\ IF r.err = nil
             THEN /\ pending' = [pending EXCEPT ![p] = MarshalTokenConfig(r.record)]
                  /\ pc' = [pc EXCEPT ![p] = "saveTokenConfig"]
                  /\ UNCHANGED err
             ELSE /\ err' = [err EXCEPT ![p] = r.err]
                  /\ pc' = [pc EXCEPT ![p] = "exit"]
                  /\ UNCHANGED pending
    /\ waited' = [waited EXCEPT ![p] = 0]
    /\ UNCHANGED <<concurrent, pure, loadErr, configFile, tokenFile, held, conf, tokenConfig, attempts,
                   retry, persisted, snap>>

\* A retry on every authentication error (a loop in place of the if).
RetryAlways(e, retried) == IsAuthenticationError(e)

\* runMain's "if userapi.IsAuthenticationError(err)" after the first
\* TranslateNames: an if, so it is taken at most once.
RetryAfter(e, retried) == IsAuthenticationError(e) /\ ~retried

\* runMain from a call of api.TranslateNames on: its first call, the branch
\* to authenticateUser on an authentication error, its second call, and
\* runSaltForDevices.
resolveDevices(p) ==
    /\ pc[p] = "TranslateNames"
    /\ \E resp \in Responses(api[p].serverURL, DevicePayloads) :
          LET r == TranslateNames(api[p], resp) IN
          /\ api' = [api EXCEPT ![p] = r.api]
          /\ IF RetryAfter(r.err, retry[p])
             THEN /\ retry' = [retry EXCEPT ![p] = TRUE]
                  /\ pc' = [pc EXCEPT ![p] = "authenticateUser"]
                  /\ log' = [log EXCEPT ![p] = Append(@, Outcome("resolve", r.err))]
                  /\ UNCHANGED err
             ELSE IF r.err # nil
             THEN /\ err' = [err EXCEPT ![p] = r.err]
                  /\ pc' = [pc EXCEPT ![p] = "exit"]
                  /\ log' = [log EXCEPT ![p] = Append(@, Outcome("resolve", r.err))]
                  /\ UNCHANGED retry
             ELSE IF r.devices = ""
             THEN /\ err' = [err EXCEPT ![p] = PlainError("No valid devices found")]
                  /\ pc' = [pc EXCEPT ![p] = "exit"]
                  /\ log' = [log EXCEPT ![p] = Append(@, "resolve_ok")]
                  /\ UNCHANGED retry
             ELSE /\ pc' = [pc EXCEPT ![p] = "exit"]
                  /\ log' = [log EXCEPT ![p] = @ \o <<"resolve_ok", "salt">>]
                  /\ UNCHANGED <<err, retry>>
    /\ UNCHANGED <<concurrent, pure, loadErr, configFile, tokenFile, held, conf, tokenConfig, attempts,
                   waited, pending, persisted, snap>>

\* The process ends (runMain returned; main logs a non-nil error): the
\* system closes its descriptors, which releases every lock it holds.
Exit(p) ==
    /\ pc[p] = "exit"
    /\ pc' = [pc EXCEPT ![p] = "done"]
    /\ held' = [f \in Files |-> {h \in held[f] : h.proc # p}]
    \* the process's memory is gone
    /\ conf' = [conf EXCEPT ![p] = EmptyConfig]
    /\ tokenConfig' = [tokenConfig EXCEPT ![p] = EmptyTokenConfig]
    /\ api' = [api EXCEPT ![p] = EmptyApi]
    /\ pending' = [pending EXCEPT ![p] = EmptyDoc]
    /\ attempts' = [attempts EXCEPT ![p] = 0]
    /\ waited' = [waited EXCEPT ![p] = 0]
    /\ retry' = [retry EXCEPT ![p] = FALSE]
    /\ err' = [err EXCEPT ![p] = nil]
    /\ log' = [log EXCEPT ![p] = <<>>]
    /\ snap' = [snap EXCEPT ![p] = EmptySnap]
    /\ loadErr' = [loadErr EXCEPT ![p] = nil]
    /\ UNCHANGED <<concurrent, pure, configFile, tokenFile, persisted>>

Next ==
    \E p \in Procs :
        \/ Start(p)
        \/ readLock(p)
        \/ ReadTokenFile(p)
        \/ ConfigExists(p)
        \/ ReadConfigFile(p)
        \/ getMissingConfig(p)
        \/ ExLock(p)
        \/ WriteOpen(p)
        \/ WriteData(p)
        \/ Finalizer(p)
        \/ New(p)
        \/ authenticateUser(p)
        \/ requestAuthentication(p)
        \/ requestScopedToken(p)
        \/ resolveDevices(p)
        \/ Exit(p)

\* Invocations one after the other, against any user and server.
Spec == Init /\ [][Next]_vars

\* Overlapping invocations.
SpecConc == InitConc /\ [][Next]_vars

\* ------------------------------------------------------ pure functions
\* handleHTTPResponse and runSaltForDevices called on their own, on every
\* argument within the bounds.
StatusCodes == 100..MaxStatusCode

SaltIds == {7, 42}

SaltCommands == {"test.ping", "state.apply"}

TestAPIHost == "api-test.cacophony.org.nz"

SaltServerURLs == {"https://api.example.org", "https://" \o TestAPIHost}

SeqsUpTo(S, n) == UNION {[1..k -> S] : k \in 0..n}

\* url.Parse(serverURL).Host, for the URLs above.
UrlHost(u) == IF u = "https://" \o TestAPIHost THEN TestAPIHost
              ELSE IF u = "https://api.example.org" THEN "api.example.org"
              ELSE ""

getSaltPrefix(serverURL) ==
    IF UrlHost(serverURL) = TestAPIHost THEN "pi" \o "-test" ELSE "pi"

\* strconv.Itoa.
Itoa(n) == ToString(n)

\* saltDeviceCommand's loop over devices[i..], spacer as it stands.
RECURSIVE SaltDevices(_, _, _, _)
SaltDevices(idPrefix, devices, i, spacer) ==
    IF i > Len(devices) THEN ""
    ELSE spacer \o idPrefix \o "-" \o Itoa(devices[i])
         \o SaltDevices(idPrefix, devices, i + 1, " ")

saltDeviceCommand(serverURL, devices) ==
    "\"" \o SaltDevices(getSaltPrefix(serverURL), devices, 1, "") \o "\""

\* runSalt: the argument vector of the process that is run.
runSalt(commands) == <<"sudo", "salt">> \o commands

\* runSaltForDevices: the error, or the argument vector run.  commands
\* starts as make([]string, 2, 6): two empty strings.
runSaltForDevices(serverURL, devices, argCommands) ==
    IF Len(devices) = 0
    THEN [err |-> PlainError("No valid devices found"), argv |-> <<>>]
    ELSE [err |-> nil,
          argv |-> runSalt(<<"", "">>
                           \o (IF Len(devices) > 1 THEN <<"-L">> ELSE <<>>)
                           \o <<saltDeviceCommand(serverURL, devices)>>
                           \o argCommands)]

\* Sessions a method of CacophonyUserAPI can be called on: with or without
\* a token, authenticated or not.
Sessions ==
    {[username |-> "alice", serverURL |-> "https://api", token |-> t, authenticated |-> a] :
        t \in {"", "T1"}, a \in BOOLEAN}

PureInputs ==
    {[NoCall EXCEPT !.fn = "handleHTTPResponse", !.code = c, !.body = b] :
        c \in StatusCodes, b \in BOOLEAN}
    \cup {[NoCall EXCEPT !.fn = "Authenticate", !.session = s, !.password = pw,
                         !.resp = r] :
        s \in Sessions, pw \in PasswordInputs, r \in Responses("https://api", AuthTokens)}
    \cup {[NoCall EXCEPT !.fn = "TranslateNames", !.session = s, !.resp = r] :
        s \in Sessions, r \in Responses("https://api", DevicePayloads)}
    \cup {[NoCall EXCEPT !.fn = "runSaltForDevices", !.url = u, !.devices = d,
                         !.commands = cs] :
        u \in SaltServerURLs, d \in SeqsUpTo(SaltIds, MaxDevices),
        cs \in SeqsUpTo(SaltCommands, MaxCommands) \ {<<>>}}

InitPure == concurrent = FALSE /\ pure \in PureInputs /\ InitFiles

CallHandleHTTPResponse ==
    /\ pure.fn = "handleHTTPResponse" /\ ~pure.done
    /\ pure' = [pure EXCEPT !.done = TRUE,
                            !.err = handleHTTPResponse(pure.code, pure.body)]
    /\ UNCHANGED <<concurrent, configFile, tokenFile, held, pc, conf, tokenConfig, api,
                   attempts, waited, retry, pending, err, log, persisted, snap, loadErr>>

CallRunSaltForDevices ==
    /\ pure.fn = "runSaltForDevices" /\ ~pure.done
    /\ LET r == runSaltForDevices(pure.url, pure.devices, pure.commands)
       IN  pure' = [pure EXCEPT !.done = TRUE, !.err = r.err, !.argv = r.argv]
    /\ UNCHANGED <<concurrent, configFile, tokenFile, held, pc, conf, tokenConfig, api,
                   attempts, waited, retry, pending, err, log, persisted, snap, loadErr>>

\* api.Authenticate(password) on its own, the server answering pure.resp if
\* it is asked.
CallAuthenticate ==
    /\ pure.fn = "Authenticate" /\ ~pure.done
    /\ LET r == Authenticate(pure.session, pure.password, pure.resp)
       IN  pure' = [pure EXCEPT !.done = TRUE, !.err = r.err, !.sent = r.sent,
                                !.after = r.api]
    /\ UNCHANGED <<concurrent, configFile, tokenFile, held, pc, conf, tokenConfig, api,
                   attempts, waited, retry, pending, err, log, persisted, snap, loadErr>>

\* api.TranslateNames(groups, devices) on its own.
CallTranslateNames ==
    /\ pure.fn = "TranslateNames" /\ ~pure.done
    /\ LET r == TranslateNames(pure.session, pure.resp)
       IN  pure' = [pure EXCEPT !.done = TRUE, !.err = r.err, !.sent = r.sent,
                                !.after = r.api]
    /\ UNCHANGED <<concurrent, configFile, tokenFile, held, pc, conf, tokenConfig, api,
                   attempts, waited, retry, pending, err, log, persisted, snap, loadErr>>

NextPure ==
    \/ CallHandleHTTPResponse
    \/ CallRunSaltForDevices
    \/ CallAuthenticate
    \/ CallTranslateNames

\* Single calls of the pure functions.
SpecPure == InitPure /\ [][NextPure]_vars

\* ============================================================ claims
Count(s, e) == Cardinality({i \in 1..Len(s) : s[i] = e})

Last(s) == s[Len(s)]

AuthenticateEvents == {"authenticate_ok", "authenticate_autherr", "authenticate_err",
                       "authenticate_empty"}

ResolveEvents == {"resolve_ok", "resolve_autherr", "resolve_err"}

\* The positions of log[p] that hold one of <events>.
Positions(p, events) == {i \in 1..Len(log[p]) : log[p][i] \in events}

\* The position of the n-th of <events> in log[p] (n within range).
Nth(p, events, n) ==
    CHOOSE i \in Positions(p, events) :
        Cardinality({j \in Positions(p, events) : j <= i}) = n

\* Every authenticate call invocation p made so far was answered 401, there
\* was one, and no password prompt failed.
OnlyRejected(p) ==
    /\ Positions(p, AuthenticateEvents) # {}
    /\ \A i \in Positions(p, AuthenticateEvents) : log[p][i] = "authenticate_autherr"
    /\ Count(log[p], "prompt_err") = 0

\* C1: while every authenticate call is answered 401 the controller does
\* nothing but prompt and authenticate; it stops at the third rejection with
\* "Max Password Attempts", having prompted exactly 3 times, and nothing (no
\* resolveDevices call, no token request, no token write) follows the
\* rejection.
C1_AuthRetryBound ==
    \A p \in Procs :
        OnlyRejected(p) =>
            /\ Last(log[p]) = "authenticate_autherr"
            /\ Count(log[p], "prompt") = Count(log[p], "authenticate_autherr")
            /\ Count(log[p], "write") = 0
            /\ Positions(p, ResolveEvents) # {} =>
                   \A i \in Positions(p, ResolveEvents) :
                       i < Nth(p, AuthenticateEvents, 1)
            /\ IF Count(log[p], "prompt") = 3
               THEN pc[p] = "exit" /\ err[p] = PlainError("Max Password Attempts")
               ELSE Count(log[p], "prompt") < 3 /\ pc[p] = "requestAuthentication"

C1_Witness ==
    \E p \in Procs :
        /\ OnlyRejected(p)
        /\ Count(log[p], "prompt") = 3
        /\ pc[p] = "exit"
        /\ err[p] = PlainError("Max Password Attempts")

\* C2: whenever an invocation has called resolveDevices twice, exactly one
\* successful authenticate call, and a password prompt, lie between the
\* two calls.
C2_ReauthBetweenResolves ==
    \A p \in Procs :
        Cardinality(Positions(p, ResolveEvents)) >= 2 =>
            LET first == Nth(p, ResolveEvents, 1)
                second == Nth(p, ResolveEvents, 2)
                between(e) == {i \in first..second : log[p][i] = e}
            IN  /\ Cardinality(between("authenticate_ok")) = 1
                /\ between("prompt") # {}

\* C3: resolveDevices is called at most twice; a second call follows only a
\* first one answered with an authentication error; a second
\* authentication error ends the invocation with that error, and nothing
\* follows it.
C3_SingleRetry ==
    \A p \in Procs :
        LET n == Cardinality(Positions(p, ResolveEvents)) IN
        /\ n <= 2
        /\ n = 2 =>
              /\ log[p][Nth(p, ResolveEvents, 1)] = "resolve_autherr"
              /\ log[p][Nth(p, ResolveEvents, 2)] = "resolve_autherr" =>
                    /\ Nth(p, ResolveEvents, 2) = Len(log[p])
                    /\ pc[p] = "exit"
                    /\ IsAuthenticationError(err[p])

C3_Witness ==
    \E p \in Procs :
        /\ Count(log[p], "resolve_autherr") = 2
        /\ pc[p] = "exit"
        /\ IsAuthenticationError(err[p])

\* C4: an empty password is a counted failed attempt: right after it the
\* controller has counted it and prompts again, or has ended with
\* "Max Password Attempts" because it was the third failed attempt.
C4_EmptyPasswordCounted ==
    \A p \in Procs :
        (log[p] # <<>> /\ Last(log[p]) = "authenticate_empty") =>
            \/ pc[p] = "requestAuthentication" /\ attempts[p] >= 1
            \/ /\ pc[p] = "exit"
               /\ err[p] = PlainError("Max Password Attempts")
               /\ attempts[p] = 3

\* C5: a session that starts with a token from the token record belongs to
\* the user the record names.
C5_StaleUser ==
    \A p \in Procs :
        (pc[p] = "TranslateNames" /\ log[p] = <<>>) =>
            /\ api[p].token = tokenConfig[p].Token
            /\ tokenConfig[p].UserName = api[p].username

\* The session of invocation p exists and nothing has been done with it.
SessionCreated(p) == pc[p] \in {"TranslateNames", "authenticateUser"} /\ log[p] = <<>>

\* C6: invocation a persisted a token record and exited, the record is
\* still the content of the token file, nobody else holds the token lock;
\* then an invocation b that started after a's exit with the record's
\* userName starts with the record's token and goes to resolveDevices.
C6_TokenReuse ==
    \A a \in Procs, b \in Procs :
        ( /\ a # b
          /\ pc[a] = "done"
          /\ persisted[a] # EmptyDoc
          /\ a \in snap[b].after
          /\ tokenFile = [exists |-> TRUE, data |-> persisted[a]]
          /\ \A h \in held["token"] : h.proc = b
          /\ SessionCreated(b)
          /\ api[b].username = UnmarshalTokenConfig(persisted[a], EmptyTokenConfig).UserName )
        => /\ api[b].token = UnmarshalTokenConfig(persisted[a], EmptyTokenConfig).Token
           /\ api[b].token # ""
           /\ pc[b] = "TranslateNames"

\* C7: a read of the token record that starts after a write of it completed
\* returns the record written.
C7_TokenRoundTrip ==
    \A p \in Procs :
        ( /\ pc[p] = "configExists"
          /\ snap[p].token.exists
          /\ Len(snap[p].token.data) = 2
          /\ tokenFile = snap[p].token )
        => tokenConfig[p] = UnmarshalTokenConfig(snap[p].token.data, EmptyTokenConfig)

\* C8: a lock file has at most one exclusive holder, and no shared holder
\* beside an exclusive one.
C8_LockMutualExclusion ==
    \A f \in Files :
        LET ex == {h \in held[f] : h.mode = "ex"} IN
        /\ Cardinality(ex) <= 1
        /\ ex # {} => held[f] = ex

\* Invocation p is in a Try(R)LockContext loop.
InLockLoop(p) == pc[p] \in {"readTokenConfig", "configRead", "Save", "saveTokenConfig"}

\* The lock p is trying for is held exclusively by another invocation.
BlockedByOther(p) ==
    \E h \in held[LockFileOf(pc[p])] : h.mode = "ex" /\ h.proc # p

C8_Witness ==
    \E p \in Procs : InLockLoop(p) /\ BlockedByOther(p) /\ waited[p] > 0

\* C9: an acquisition attempt never waits past the timeout: each retry adds
\* the retry delay to a wait that stays below the timeout, and the attempt
\* that finds the lock still held by another invocation when no retry fits
\* any more returns without the lock.
C9_LockTimeout ==
    [][\A p \in Procs :
          InLockLoop(p) =>
              /\ waited[p] < lockTimeout
              /\ (pc'[p] = pc[p] /\ waited'[p] # waited[p]) =>
                     waited'[p] = waited[p] + lockRetryDelay /\ waited'[p] < lockTimeout
              /\ (BlockedByOther(p) /\ waited[p] + lockRetryDelay >= lockTimeout
                  /\ <<pc[p], waited[p]>> # <<pc'[p], waited'[p]>>) =>
                     /\ ~InLockLoop(p)'
                     /\ pc'[p] \notin {"readTokenFile", "configReadFile", "SaveWrite", "tokenWrite"}
                     /\ \A f \in Files : {h \in held'[f] : h.proc = p} = {h \in held[f] : h.proc = p}
      ]_vars

C9_Witness ==
    \E p \in Procs :
        /\ InLockLoop(p)
        /\ BlockedByOther(p)
        /\ waited[p] = 7 * lockRetryDelay

\* C10: outside Save and saveTokenConfig an invocation holds no exclusive
\* lock: the writers released what they acquired before they returned.
C10_WritersRelease ==
    \A p \in Procs :
        pc[p] \notin {"Save", "saveTokenConfig", "SaveWrite", "SaveWriteData",
                      "tokenWrite", "tokenWriteData"}
        => \A f \in Files : ExHandlesOf(p, f) = {}

\* The shared handles invocation p holds on lock file f.
ShHandlesOf(p, f) == {h \in held[f] : h.proc = p /\ h.mode = "sh"}

\* Invocation p holds the shared lock and is about to read the file.
Reading(p) == pc[p] \in {"readTokenFile", "configReadFile"}

\* C11: NewConfig fails with "user config is missing", without taking a
\* lock, when the identity file is absent; a read of the identity or token
\* file holds the shared lock while it reads, and when the read returns
\* (content, no file, or a read error) the invocation holds no shared lock.
C11_ReadersRelease ==
    [][\A p \in Procs :
          /\ (pc[p] = "configExists" /\ ~configFile.exists /\ pc'[p] # pc[p]) =>
                 /\ loadErr'[p] = ConfigMissing
                 /\ pc'[p] = "getMissingConfig"
                 /\ held' = held
          /\ Reading(p) =>
                 Handle(p, "sh", 0) \in held[IF pc[p] = "readTokenFile" THEN "token"
                                             ELSE "config"]
          /\ (Reading(p) /\ pc'[p] # pc[p]) =>
                 \A f \in Files : {h \in held'[f] : h.proc = p /\ h.mode = "sh"} = {}
          /\ ~Reading(p) => \A f \in Files : ShHandlesOf(p, f) = {}
      ]_vars

\* A read of the identity file has just returned a read error.
C11_Witness ==
    \E p \in Procs :
        /\ pc[p] = "getMissingConfig"
        /\ loadErr[p] = PlainError("read")
        /\ configFile.exists
        /\ \A f \in Files : ShHandlesOf(p, f) = {}

\* C12: when saveTokenConfig did not get the exclusive lock within the
\* timeout, the persistence step returns an error: the invocation ends
\* with it instead of going on as if the token had been written.
C12_NoFalseSuccess ==
    \A p \in Procs :
        (log[p] # <<>> /\ Last(log[p]) = "save_lock_timeout") =>
            pc[p] = "exit" /\ err[p] # nil

\* The pcs of an invocation inside NewConfig.
InNewConfig(p) ==
    pc[p] \in {"readTokenConfig", "readTokenFile", "configExists", "configRead",
              "configReadFile"}

\* C13: when a shared lock was not acquired within the timeout during
\* NewConfig, on the token file or on the identity file, the error NewConfig
\* returns to runMain is that lock error.
C13_LockErrorsPropagated ==
    [][\A p \in Procs :
          (InNewConfig(p) /\ pc'[p] \in {"getMissingConfig", "New"}
           /\ loadErr[p] = LockError) => loadErr'[p] = LockError
      ]_vars

\* The log entries that stand for a request sent to the server.
NetworkEvents ==
    {"authenticate_ok", "authenticate_autherr", "authenticate_err",
     "token_ok", "token_autherr", "token_err",
     "resolve_ok", "resolve_autherr", "resolve_err"}

\* C14: an invocation that has attempted a network call has an identity
\* with a non-empty serverURL and a non-empty userName.
C14_IdentityComplete ==
    \A p \in Procs :
        Positions(p, NetworkEvents) # {} =>
            api[p].serverURL # "" /\ api[p].username # ""

\* handleHTTPResponse has been applied to a response.
Classified == pure.fn = "handleHTTPResponse" /\ pure.done

\* C15: the status code alone decides the result: no error exactly for
\* 200..299, an authentication error exactly for 401, a permanent
\* non-authentication error for the other codes of 400..499, and a
\* non-permanent non-authentication error for every remaining code.
C15_ResponseClassification ==
    Classified =>
        LET c == pure.code
            e == pure.err
        IN  /\ e = nil <=> (c >= 200 /\ c <= 299)
            /\ IsAuthenticationError(e) <=> c = 401
            /\ (c >= 400 /\ c <= 499 /\ c # 401) =>
                   e.typ = "Error" /\ e.permanent /\ ~e.authentication
            /\ (c < 200 \/ (c >= 300 /\ c <= 399) \/ c >= 500) =>
                   e.typ = "Error" /\ ~e.permanent /\ ~e.authentication

\* C15 as amended: the same, except that the error for a code of 400..499
\* other than 401 is permanent only when the response body could be read;
\* when reading the body fails it is non-permanent, as for every other
\* code that is neither 2xx nor 401.
C15_ResponseClassificationAmended ==
    Classified =>
        LET c == pure.code
            e == pure.err
        IN  /\ e = nil <=> (c >= 200 /\ c <= 299)
            /\ IsAuthenticationError(e) <=> c = 401
            /\ (c >= 400 /\ c <= 499 /\ c # 401) =>
                   e.typ = "Error" /\ ~e.authentication /\ (e.permanent <=> pure.body)
            /\ (c < 200 \/ (c >= 300 /\ c <= 399) \/ c >= 500) =>
                   e.typ = "Error" /\ ~e.permanent /\ ~e.authentication

\* A 403 whose body could be read has been classified as permanent.
C15_Witness ==
    Classified /\ pure.code = 403 /\ pure.body /\ pure.err.permanent

\* The log entries of a call that failed with an error other than an
\* authentication error.
FailureEvents == {"authenticate_err", "token_err", "resolve_err"}

\* C16: a call that failed with an error other than an authentication error
\* is the last thing the invocation did: it ends with a non-authentication
\* error, and no prompt, call, write or salt run follows.
C16_NoRetryOfFailures ==
    \A p \in Procs :
        \A i \in Positions(p, FailureEvents) :
            /\ i = Len(log[p])
            /\ pc[p] = "exit"
            /\ err[p] # nil
            /\ ~IsAuthenticationError(err[p])

C16_Witness ==
    \E p \in Procs :
        /\ log[p] # <<>>
        /\ Last(log[p]) = "authenticate_err"
        /\ err[p].typ = "Error"
        /\ err[p].code = 500
        /\ pc[p] = "exit"

\* saveTokenConfig is under way in invocation p.
WritingToken(p) == pc[p] \in {"saveTokenConfig", "tokenWrite", "tokenWriteData"}

\* C17: every write of the token record comes after a successful
\* authenticate call and a later successful token exchange of the same
\* invocation; while the record is being written the session is
\* authenticated and its token is one an authenticate call returned.
C17_TokenWriteOrdering ==
    \A p \in Procs :
        /\ \A i \in Positions(p, {"write"}) :
              \E a \in 1..i, t \in 1..i :
                  a < t /\ log[p][a] = "authenticate_ok" /\ log[p][t] = "token_ok"
        /\ WritingToken(p) =>
              /\ Count(log[p], "authenticate_ok") >= 1
              /\ Last(log[p]) = "token_ok"
              /\ api[p].authenticated
              /\ api[p].token \in AuthTokens \ {""}

\* An invocation that started with a cached token has authenticated after a
\* 401 and written the token record.
C17_Witness ==
    \E p \in Procs :
        /\ Len(log[p]) >= 5
        /\ log[p][1] = "resolve_autherr"
        /\ Last(log[p]) = "write"

\* runMain has created the session of invocation p (userapi.New returned).
AfterNew(p) ==
    pc[p] \in {"authenticateUser", "requestAuthentication", "SaveTemporaryToken",
              "saveTokenConfig", "tokenWrite", "tokenWriteData", "TranslateNames", "exit"}

\* C18: an invocation whose NewConfig yielded a non-empty token goes from
\* userapi.New straight to TranslateNames with that token: the first thing
\* it does is the resolveDevices call; no prompt, authenticate call, token
\* exchange or token write comes before it.
C18_EntryWithCachedToken ==
    \A p \in Procs :
        (AfterNew(p) /\ conf[p].token # "") =>
            IF log[p] = <<>>
            THEN pc[p] = "TranslateNames" /\ api[p].token = conf[p].token
            ELSE log[p][1] \in ResolveEvents

C18_Witness ==
    \E p \in Procs :
        /\ pc[p] = "exit"
        /\ conf[p].token # ""
        /\ log[p] = <<"resolve_ok", "salt">>

\* C19: right after an invocation wrote the token record, the token file
\* holds the session's userName and "JWT " followed by a token of the
\* exchange, which is not the session's (authenticate's) token.
C19_ScopeExchange ==
    \A p \in Procs :
        (log[p] # <<>> /\ Last(log[p]) = "write") =>
            /\ tokenFile.exists
            /\ tokenFile.data = persisted[p]
            /\ \E st \in ScopedTokens :
                  UnmarshalTokenConfig(tokenFile.data, EmptyTokenConfig) =
                      [UserName |-> api[p].username, Token |-> "JWT " \o st]
            /\ UnmarshalTokenConfig(tokenFile.data, EmptyTokenConfig).Token # api[p].token

C19_Witness ==
    \E p \in Procs :
        /\ log[p] = <<"prompt", "authenticate_ok", "token_ok", "write">>
        /\ api[p].token = "T1"
        /\ tokenFile.data = << <<"user-name", "alice">>, <<"token", "JWT S2">> >>

\* runSaltForDevices has run salt for at least one device.
SaltRun == pure.fn = "runSaltForDevices" /\ pure.done /\ Len(pure.devices) >= 1

\* C20: the process run is sudo salt followed, for more than one device, by
\* exactly -L, the quoted ids and the commands, and for one device by
\* exactly the quoted id and the commands.
C20_SaltInvocationShape ==
    SaltRun =>
        pure.argv = <<"sudo", "salt">>
                    \o (IF Len(pure.devices) > 1 THEN <<"-L">> ELSE <<>>)
                    \o <<saltDeviceCommand(pure.url, pure.devices)>>
                    \o pure.commands

\* ------------------------------------------------------------ C21
\* The places of an invocation in the order runMain passes them; the seven
\* from authenticateUser to TranslateNames are passed a second time in the
\* round that follows a failed TranslateNames.
Stages == <<"idle", "readTokenConfig", "readTokenFile", "configExists", "configRead",
            "configReadFile", "getMissingConfig", "Save", "SaveWrite", "SaveWriteData",
            "New", "authenticateUser", "requestAuthentication", "SaveTemporaryToken",
            "saveTokenConfig", "tokenWrite", "tokenWriteData", "TranslateNames",
            "exit", "done">>

StageOf(l) == CHOOSE i \in 1..Len(Stages) : Stages[i] = l

\* A measure of how far invocation p has come: the place, then the password
\* attempts used at that place, then the lock attempts made at that place.
Progress(p) ==
    LET s == StageOf(pc[p])
        place == IF s >= StageOf("exit") \/ (s >= StageOf("authenticateUser") /\ retry[p])
                 THEN s + 7 ELSE s
    IN  place * 100 + attempts[p] * 10 + (waited[p] \div lockRetryDelay)

\* Everything invocation p keeps in its own memory.
Local(p) == <<pc[p], conf[p], tokenConfig[p], api[p], attempts[p], waited[p], retry[p],
              pending[p], err[p], log[p], loadErr[p]>>

\* C21: every step of an invocation (a prompt, a network call or a lock
\* attempt that returned, or any other step of runMain) brings it strictly
\* nearer to its end: the measure Progress grows with each step and is
\* bounded (at most 3 password attempts per round, lock attempts only
\* within the lock timeout, at most two rounds), so the invocation reaches
\* "exit" after finitely many steps and no cycle of prompting,
\* authenticating and resolving exists.
C21_Termination ==
    [][\A p \in Procs :
          Local(p)' # Local(p) =>
             /\ Progress(p)' > Progress(p)
             /\ attempts'[p] <= maxPasswordAttempts
             /\ waited'[p] < lockTimeout
             /\ Progress(p)' <= (StageOf("done") + 7) * 100]_vars

\* An invocation that went the longest way: a cached token is refused, the
\* round of re-authentication uses all three password attempts.
C21_Witness ==
    \E p \in Procs :
        /\ pc[p] = "exit" /\ retry[p]
        /\ Count(log[p], "resolve_autherr") = 1
        /\ Count(log[p], "prompt") = 3
        /\ err[p] = PlainError("Max Password Attempts")

\* ------------------------------------------------------------ C22
AuthenticateCalled == pure.fn = "Authenticate" /\ pure.done

\* C22: Authenticate called with an empty password returns an error that is
\* not an AuthenticationError, sends no request, and leaves the session's
\* token and authenticated flag as they were.
C22_EmptyPassword ==
    (AuthenticateCalled /\ pure.password = "") =>
        /\ pure.err # nil
        /\ ~IsAuthenticationError(pure.err)
        /\ ~pure.sent
        /\ pure.after.token = pure.session.token
        /\ pure.after.authenticated = pure.session.authenticated

\* Authenticate was called with an empty password on a session that had a
\* token, while the server would have accepted the request.
C22_Witness ==
    /\ AuthenticateCalled /\ pure.password = ""
    /\ pure.session.token = "T1"
    /\ pure.resp.decodes /\ pure.resp.payload = ""

\* ------------------------------------------------------------ C23
TranslateNamesCalled == pure.fn = "TranslateNames" /\ pure.done

\* C23: TranslateNames called on a session without a token returns an
\* AuthenticationError that is not permanent, sends no request and leaves
\* the session as it was; runMain treats the error as it treats the error of
\* a 401 answer: it takes its one round of re-authentication when none was
\* taken yet, and does not take a second.
C23_EmptyToken ==
    (TranslateNamesCalled /\ pure.session.token = "") =>
        /\ IsAuthenticationError(pure.err)
        /\ ~pure.err.permanent
        /\ ~pure.sent
        /\ pure.after = pure.session
        /\ \A retried \in BOOLEAN, body \in BOOLEAN :
              RetryAfter(pure.err, retried)
                 = RetryAfter(handleHTTPResponse(401, body), retried)
        /\ RetryAfter(pure.err, FALSE) /\ ~RetryAfter(pure.err, TRUE)

\* TranslateNames was called without a token while the server would have
\* answered with devices.
C23_Witness ==
    /\ TranslateNamesCalled /\ pure.session.token = ""
    /\ pure.resp.decodes /\ pure.resp.payload = "devices"

\* ------------------------------------------------------------ C24
\* C24: within an invocation the session's authenticated flag starts false
\* (userapi.New), becomes true only in a step in which Authenticate or
\* TranslateNames succeeds, and once true stays true until the invocation
\* ends, whatever errors TranslateNames or SaveTemporaryToken return.
C24_AuthenticatedMonotonic ==
    [][\A p \in Procs :
          /\ pc[p] = "New" => ~api'[p].authenticated
          /\ (AfterNew(p) /\ pc'[p] # "done" /\ api[p].authenticated)
                => api'[p].authenticated
          /\ (AfterNew(p) /\ ~api[p].authenticated /\ api'[p].authenticated)
                => /\ Len(log'[p]) > Len(log[p])
                   /\ \/ Last(log'[p]) = "authenticate_ok"
                      \/ log'[p][Len(log[p]) + 1] = "resolve_ok"]_vars

\* A session that is still marked authenticated after both TranslateNames
\* and SaveTemporaryToken returned an AuthenticationError.
C24_Witness ==
    \E p \in Procs :
        /\ api[p].authenticated
        /\ Count(log[p], "authenticate_ok") = 1
        /\ Count(log[p], "resolve_autherr") = 1
        /\ Last(log[p]) = "token_autherr"

\* ------------------------------------------------------------ C25
\* C25: in one invocation, the first authentication and the round after a
\* failed TranslateNames taken together, the password is asked for at most
\* 3 times and Authenticate is called at most 3 times.
C25_TotalAttempts ==
    \A p \in Procs :
        /\ Count(log[p], "prompt") <= 3
        /\ Cardinality(Positions(p, AuthenticateEvents)) <= 3

\* An invocation that authenticated at its third attempt, was refused by
\* TranslateNames, went through authenticateUser again and called
\* TranslateNames a second time.
C25_Witness ==
    \E p \in Procs :
        /\ Count(log[p], "prompt") = 3
        /\ Cardinality(Positions(p, AuthenticateEvents)) = 3
        /\ Count(log[p], "authenticate_ok") = 1
        /\ Cardinality(Positions(p, ResolveEvents)) = 2

\* ------------------------------------------------------------ C26
\* Tokens as saveTokenConfig is handed them.
ScopedRecords == {"JWT " \o s : s \in ScopedTokens}

\* C26: SaveTemporaryToken leaves the session's token as it was (the scoped
\* token goes to the token record only), so whenever TranslateNames is about
\* to be called after an Authenticate of the same invocation, the session
\* holds a token the server returned from Authenticate and not a scoped one.
C26_SessionTokenKept ==
    [][\A p \in Procs :
          /\ pc[p] = "SaveTemporaryToken" => api'[p].token = api[p].token
          /\ (pc'[p] = "TranslateNames" /\ Count(log'[p], "authenticate_ok") >= 1)
                => /\ api'[p].token \in AuthTokens
                   /\ api'[p].token \notin ScopedRecords]_vars

\* After an Authenticate the scoped token was written to the token file and
\* TranslateNames is next, the session holding another token than the file.
C26_Witness ==
    \E p \in Procs :
        /\ pc[p] = "TranslateNames"
        /\ Count(log[p], "authenticate_ok") = 1
        /\ Last(log[p]) = "write"
        /\ tokenFile.exists
        /\ YamlGet(tokenFile.data, "token", "") \in ScopedRecords
        /\ api[p].token # YamlGet(tokenFile.data, "token", "")

\* ------------------------------------------------------------ C27
\* C27: a session that is marked authenticated holds a non-empty token,
\* whatever token the server's answer to Authenticate carried.
C27_AuthenticatedHasToken ==
    \A p \in Procs : api[p].authenticated => api[p].token # ""

\* ------------------------------------------------------------ C28
\* A token file that holds one whole record.
CompleteRecord(file) ==
    /\ Len(file.data) = 2
    /\ YamlHas(file.data, "user-name") /\ YamlHas(file.data, "token")

\* C28: with invocations that overlap, the token file is changed only in a
\* step of a process that holds the exclusive lock on it before and after
\* the step; a read of the file happens while the reader holds the shared
\* lock and nobody holds the exclusive one, so no write is under way, and
\* the file read, if there is one, holds one whole record, the one written
\* last, which is what the reader gets.
C28_LockedAccess ==
    [][/\ tokenFile' # tokenFile =>
            \E p \in Procs :
               /\ pc[p] \in {"tokenWrite", "tokenWriteData"} /\ pc'[p] # pc[p]
               /\ SaveHandle(p) \in held["token"] /\ SaveHandle(p) \in held'["token"]
       /\ \A p \in Procs :
            (pc[p] = "readTokenFile" /\ pc'[p] # pc[p]) =>
               /\ Handle(p, "sh", 0) \in held["token"]
               /\ \A h \in held["token"] : h.mode # "ex"
               /\ \A q \in Procs : pc[q] # "tokenWriteData"
               /\ tokenFile.exists =>
                     /\ CompleteRecord(tokenFile)
                     /\ \E q \in Procs : persisted[q] = tokenFile.data
                     /\ MarshalTokenConfig(tokenConfig'[p]) = tokenFile.data
               /\ ~tokenFile.exists => tokenConfig'[p] = EmptyTokenConfig]_vars

\* A reader is about to read a record another invocation wrote, while a
\* third invocation waits for the exclusive lock to write its own.
C28_Witness ==
    \E p, q \in Procs :
        /\ pc[p] = "readTokenFile" /\ tokenFile.exists
        /\ \E w \in Procs \ {p, q} : persisted[w] = tokenFile.data
        /\ pc[q] = "saveTokenConfig" /\ waited[q] > 0
====
